---- MODULE Spec2Model ----
(***************************************************************************)
(* Model of the DFPlayer serial driver (src/src/lib.rs): the Command ->     *)
(* Message codec, the blocking transmit loop send_message and the          *)
(* byte-at-a-time frame reassembler read_message.                           *)
(*                                                                         *)
(* A Message is the Rust array [u8; 10]; it is modelled as a function on    *)
(* 0..9 so that every index is the index the source uses.                   *)
(***************************************************************************)
EXTENDS Integers, Sequences, FiniteSets

VARIABLES
    rx_message,   \* DFPlayer.rx_message: the reassembly buffer
    rx_counter,   \* DFPlayer.rx_counter: the cursor into rx_message
    rx_in,        \* what self.rx.read() returned in the last read_message call
    rx_result,    \* what the last read_message call returned
    rx_stream,    \* serial RX: the bytes that arrive first, in order
    rx_pos,       \* serial RX: how many bytes of rx_stream have been read
    call,         \* the public function (and raw arguments) last invoked
    command,      \* the Command value last converted into a Message
    tx_msg,       \* send_message: its argument msg
    tx_idx,       \* send_message: position of the loop over msg
    tx_wire,      \* serial TX: the bytes the transport accepted during this call
    tx_blocked,   \* serial TX: WouldBlock answers for the byte at tx_idx so far
    tx_result     \* what send_message returned ("Busy" while inside it)

rx_vars == <<rx_message, rx_counter, rx_in, rx_result, rx_stream, rx_pos>>
tx_vars == <<call, command, tx_msg, tx_idx, tx_wire, tx_blocked, tx_result>>
vars == <<rx_message, rx_counter, rx_in, rx_result, rx_stream, rx_pos,
          call, command, tx_msg, tx_idx, tx_wire, tx_blocked, tx_result>>

----------------------------------------------------------------------------
(* Bounds of the model. *)

\* longest run of non-marker bytes that arrives ahead of anything else
MaxJunk == 11
\* how often the transport may answer WouldBlock for one byte
MaxBlock == 2

----------------------------------------------------------------------------
(* Constants and types of the source. *)

MSG_START == 126   \* 0x7e
MSG_END == 239     \* 0xef
MSG_LEN == 10      \* type Message = [u8; 10]

U8 == 0..255
U16 == 0..65535
MsgIdx == 0..(MSG_LEN - 1)

Min(a, b) == IF a < b THEN a ELSE b
Max(a, b) == IF a > b THEN a ELSE b

\* u16::to_be_bytes: the pair <<high byte, low byte>>
to_be_bytes(x) == <<x \div 256, x % 256>>

\* 0_u16.wrapping_sub(sum)
wrapping_sub0(sum) == (65536 - (sum % 65536)) % 65536

\* [0; 10]
ZeroMessage == [i \in MsgIdx |-> 0]

\* #[repr(u8)] enum Equalizer, enum PlaybackMode: the discriminants
Equalizer == 0..5
PlaybackMode == 0..3

\* enum Command; a and b are the variant's fields (0 where it has none)
Cmd(v, a, b) == [variant |-> v, a |-> a, b |-> b]

PlainVariants ==
    {"Next", "Previous", "IncreseVolume", "DecreseVolume", "Standby",
     "NormalWorking", "ResetModule", "Playback", "Pause",
     "StopAdvertisement", "Stop"}
U16Variants == {"SpecifyTrack", "SpecifyMp3Track", "SpecifyAdvertisement"}
Variants ==
    PlainVariants \cup U16Variants \cup
    {"SpecifyVolume", "SpecifyEqualizer", "SpecifyPlaybackMode", "SpecifyFolder"}

\* the argument values the model draws for u8 and u16 parameters
VolumeArgs == {0, 1, 29, 30, 31, 126, 239, 255}
FolderArgs == {0, 98, 99, 100, 255}
TrackArgs == {0, 5, 239, 255}
U16Args == {0, 1, 107, 255, 256, 9998, 9999, 10000, 65535}

Commands ==
    {Cmd(v, 0, 0) : v \in PlainVariants}
    \cup {Cmd(v, t, 0) : v \in U16Variants, t \in U16Args}
    \cup {Cmd("SpecifyVolume", x, 0) : x \in VolumeArgs}
    \cup {Cmd("SpecifyEqualizer", e, 0) : e \in Equalizer}
    \cup {Cmd("SpecifyPlaybackMode", m, 0) : m \in PlaybackMode}
    \cup {Cmd("SpecifyFolder", f, t) : f \in FolderArgs, t \in TrackArgs}

----------------------------------------------------------------------------
(* The codec: impl From<Command> for Message. *)

\* fn add_static_bytes(msg)
add_static_bytes(msg) ==
    [msg EXCEPT ![0] = 126, ![1] = 255, ![2] = 6, ![9] = 239]

\* the identifier table with Stop given StopAdvertisement's identifier
command_id_dup(c) ==
    CASE c.variant = "Next" -> 1
      [] c.variant = "Previous" -> 2
      [] c.variant = "SpecifyTrack" -> 3
      [] c.variant = "IncreseVolume" -> 4
      [] c.variant = "DecreseVolume" -> 5
      [] c.variant = "SpecifyVolume" -> 6
      [] c.variant = "SpecifyEqualizer" -> 7
      [] c.variant = "SpecifyPlaybackMode" -> 8
      [] c.variant = "Standby" -> 10
      [] c.variant = "NormalWorking" -> 11
      [] c.variant = "ResetModule" -> 12
      [] c.variant = "Playback" -> 13
      [] c.variant = "Pause" -> 14
      [] c.variant = "SpecifyFolder" -> 15
      [] c.variant = "SpecifyMp3Track" -> 18
      [] c.variant = "SpecifyAdvertisement" -> 19
      [] c.variant = "StopAdvertisement" -> 21
      [] c.variant = "Stop" -> 21

\* the match that sets msg[3]
command_id(c) ==
    CASE c.variant = "Next" -> 1
      [] c.variant = "Previous" -> 2
      [] c.variant = "SpecifyTrack" -> 3
      [] c.variant = "IncreseVolume" -> 4
      [] c.variant = "DecreseVolume" -> 5
      [] c.variant = "SpecifyVolume" -> 6
      [] c.variant = "SpecifyEqualizer" -> 7
      [] c.variant = "SpecifyPlaybackMode" -> 8
      [] c.variant = "Standby" -> 10
      [] c.variant = "NormalWorking" -> 11
      [] c.variant = "ResetModule" -> 12
      [] c.variant = "Playback" -> 13
      [] c.variant = "Pause" -> 14
      [] c.variant = "SpecifyFolder" -> 15
      [] c.variant = "SpecifyMp3Track" -> 18
      [] c.variant = "SpecifyAdvertisement" -> 19
      [] c.variant = "StopAdvertisement" -> 21
      [] c.variant = "Stop" -> 22

\* the match that yields data: [u8; 2]
command_data(c) ==
    CASE c.variant = "SpecifyTrack" -> to_be_bytes(c.a)
      [] c.variant = "SpecifyVolume" -> <<0, c.a>>
      [] c.variant = "SpecifyEqualizer" -> <<0, c.a>>
      [] c.variant = "SpecifyPlaybackMode" -> <<0, c.a>>
      [] c.variant = "SpecifyFolder" -> <<c.a, c.b>>
      [] c.variant = "SpecifyMp3Track" -> to_be_bytes(c.a)
      [] c.variant = "SpecifyAdvertisement" -> to_be_bytes(c.a)
      [] OTHER -> <<0, 0>>

\* the value of sum after the loop over msg[1..7] (as a mathematical integer)
checksum_sum(msg) == msg[1] + msg[2] + msg[3] + msg[4] + msg[5] + msg[6]

\* add_checksum with the loop one byte short: msg[1..6] instead of msg[1..7]
add_checksum_short(msg) ==
    LET sum == msg[1] + msg[2] + msg[3] + msg[4] + msg[5]
        checksum == to_be_bytes(wrapping_sub0(sum))
    IN  [msg EXCEPT ![7] = checksum[1], ![8] = checksum[2]]

\* fn add_checksum(msg)
add_checksum(msg) ==
    LET checksum == to_be_bytes(wrapping_sub0(checksum_sum(msg)))
    IN  [msg EXCEPT ![7] = checksum[1], ![8] = checksum[2]]

\* fn from(command: Command) -> Message
from_command(c) ==
    LET m0 == add_static_bytes(ZeroMessage)
        m1 == [m0 EXCEPT ![3] = command_id(c)]
        m2 == [m1 EXCEPT ![4] = 0]
        data == command_data(c)
        m3 == [m2 EXCEPT ![5] = data[1], ![6] = data[2]]
    IN  add_checksum(m3)

\* enum Querry
Querries ==
    {"Status", "Volume", "Equalizer", "PlaybackMode", "SoftwareVersion",
     "FileCountInFolder", "FolderCount"}

\* what a conversion leaves: unimplemented!() reached (no Message exists), or
\* the Message returned
Unimplemented == [unimplemented |-> TRUE, msg |-> ZeroMessage]
Returned(m) == [unimplemented |-> FALSE, msg |-> m]

\* the conversion with a catch-all identifier 0x00 in place of unimplemented!()
from_querry_fallback(q) ==
    LET m0 == add_static_bytes(ZeroMessage)
        m1 == [m0 EXCEPT ![3] = IF q = "Volume" THEN 1 ELSE 0]
        m2 == [m1 EXCEPT ![4] = 0]
        m3 == [m2 EXCEPT ![5] = 0, ![6] = 0]
    IN  Returned(add_checksum(m3))

\* fn from(querry: Querry) -> Message
from_querry(q) ==
    LET m0 == add_static_bytes(ZeroMessage)
    IN  IF q = "Volume"
        THEN LET m1 == [m0 EXCEPT ![3] = 1]
                 m2 == [m1 EXCEPT ![4] = 0]
                 m3 == [m2 EXCEPT ![5] = 0, ![6] = 0]
             IN  Returned(add_checksum(m3))
        ELSE Unimplemented

----------------------------------------------------------------------------
(* The transmit side: the public wrappers and send_message. *)

\* the record of a public call: its name and its raw arguments
Api(fn, a, b) == [fn |-> fn, a |-> a, b |-> b]

\* set_volume without the .min(30)
set_volume_unclamped(vol) == Cmd("SpecifyVolume", Max(vol, 0), 0)

\* the Command each wrapper builds
set_volume_command(vol) == Cmd("SpecifyVolume", Min(Max(vol, 0), 30), 0)
play_mp3_command(track) == Cmd("SpecifyMp3Track", Max(Min(track, 9999), 0), 0)
play_folder_track_command(folder, track) ==
    Cmd("SpecifyFolder", Max(Min(folder, 99), 0), track)
advertise_command(ad) == Cmd("SpecifyAdvertisement", Max(Min(ad, 9999), 0), 0)

\* entry into send_message(msg): the loop over msg starts at its first byte
send_message(msg) ==
    /\ tx_result \notin {"Busy", "Panic"}
    /\ tx_msg' = msg
    /\ tx_idx' = 0
    /\ tx_wire' = <<>>
    /\ tx_blocked' = 0
    /\ tx_result' = "Busy"
    /\ UNCHANGED rx_vars

pause ==
    /\ call' = Api("pause", 0, 0)
    /\ command' = Cmd("Pause", 0, 0)
    /\ send_message(from_command(command'))

play ==
    /\ call' = Api("play", 0, 0)
    /\ command' = Cmd("Playback", 0, 0)
    /\ send_message(from_command(command'))

next_track ==
    /\ call' = Api("next_track", 0, 0)
    /\ command' = Cmd("Next", 0, 0)
    /\ send_message(from_command(command'))

previous_track ==
    /\ call' = Api("previous_track", 0, 0)
    /\ command' = Cmd("Previous", 0, 0)
    /\ send_message(from_command(command'))

increse_volume ==
    /\ call' = Api("increse_volume", 0, 0)
    /\ command' = Cmd("IncreseVolume", 0, 0)
    /\ send_message(from_command(command'))

decrese_volume ==
    /\ call' = Api("decrese_volume", 0, 0)
    /\ command' = Cmd("DecreseVolume", 0, 0)
    /\ send_message(from_command(command'))

set_volume ==
    \E vol \in VolumeArgs :
        /\ call' = Api("set_volume", vol, 0)
        /\ command' = set_volume_command(vol)
        /\ send_message(from_command(command'))

standby ==
    /\ call' = Api("standby", 0, 0)
    /\ command' = Cmd("Standby", 0, 0)
    /\ send_message(from_command(command'))

reset_module ==
    /\ call' = Api("reset_module", 0, 0)
    /\ command' = Cmd("ResetModule", 0, 0)
    /\ send_message(from_command(command'))

wakeup ==
    /\ call' = Api("wakeup", 0, 0)
    /\ command' = Cmd("NormalWorking", 0, 0)
    /\ send_message(from_command(command'))

set_equilizer ==
    \E eq \in Equalizer :
        /\ call' = Api("set_equilizer", eq, 0)
        /\ command' = Cmd("SpecifyEqualizer", eq, 0)
        /\ send_message(from_command(command'))

set_playback_mode ==
    \E mode \in PlaybackMode :
        /\ call' = Api("set_playback_mode", mode, 0)
        /\ command' = Cmd("SpecifyPlaybackMode", mode, 0)
        /\ send_message(from_command(command'))

play_mp3 ==
    \E track \in U16Args :
        /\ call' = Api("play_mp3", track, 0)
        /\ command' = play_mp3_command(track)
        /\ send_message(from_command(command'))

play_folder_track ==
    \E folder \in FolderArgs, track \in TrackArgs :
        /\ call' = Api("play_folder_track", folder, track)
        /\ command' = play_folder_track_command(folder, track)
        /\ send_message(from_command(command'))

advertise ==
    \E ad \in U16Args :
        /\ call' = Api("advertise", ad, 0)
        /\ command' = advertise_command(ad)
        /\ send_message(from_command(command'))

\* send_message(command.into()) for any Command value, the variants no
\* wrapper builds and the parameters no wrapper lets through included
send_command ==
    \E c \in Commands :
        /\ call' = Api("into", c.a, c.b)
        /\ command' = c
        /\ send_message(from_command(command'))

\* send_message(querry.into()) for any Querry value; where the conversion
\* reaches unimplemented!() the program panics and nothing runs after it
querry_into ==
    \E q \in Querries :
        /\ tx_result \notin {"Busy", "Panic"}
        /\ call' = Api("querry_into", 0, 0)
        /\ command' = Cmd(q, 0, 0)
        /\ IF from_querry(q).unimplemented
           THEN /\ tx_result' = "Panic"
                /\ UNCHANGED <<tx_msg, tx_idx, tx_wire, tx_blocked>>
                /\ UNCHANGED rx_vars
           ELSE send_message(from_querry(q).msg)

\* self.tx.write(*byte) answered Ok(()): the loop moves on; after the last
\* byte send_message returns Ok(())
tx_write_ok ==
    /\ tx_result = "Busy"
    /\ tx_idx < MSG_LEN
    /\ tx_wire' = Append(tx_wire, tx_msg[tx_idx])
    /\ tx_idx' = tx_idx + 1
    /\ tx_blocked' = 0
    /\ tx_result' = IF tx_idx + 1 = MSG_LEN THEN "Ok" ELSE "Busy"
    /\ UNCHANGED <<call, command, tx_msg>>
    /\ UNCHANGED rx_vars

\* WouldBlock taken for a failure: the write is not repeated
tx_write_would_block_gives_up ==
    /\ tx_result = "Busy"
    /\ tx_idx < MSG_LEN
    /\ tx_blocked < MaxBlock
    /\ tx_blocked' = tx_blocked + 1
    /\ tx_result' = "WriteError"
    /\ UNCHANGED <<call, command, tx_msg, tx_idx, tx_wire>>
    /\ UNCHANGED rx_vars

\* self.tx.write(*byte) answered Err(nb::Error::WouldBlock): block! calls it again
tx_write_would_block ==
    /\ tx_result = "Busy"
    /\ tx_idx < MSG_LEN
    /\ tx_blocked < MaxBlock
    /\ tx_blocked' = tx_blocked + 1
    /\ UNCHANGED <<call, command, tx_msg, tx_idx, tx_wire, tx_result>>
    /\ UNCHANGED rx_vars

\* a rejected byte is skipped and the loop goes on with the next one
tx_write_err_skip ==
    /\ tx_result = "Busy"
    /\ tx_idx < MSG_LEN
    /\ tx_idx' = tx_idx + 1
    /\ tx_blocked' = 0
    /\ tx_result' = IF tx_idx + 1 = MSG_LEN THEN "WriteError" ELSE "Busy"
    /\ UNCHANGED <<call, command, tx_msg, tx_wire>>
    /\ UNCHANGED rx_vars

\* self.tx.write(*byte) answered Err(nb::Error::Other(err)):
\* return Err(Error::WriteError(err))
tx_write_err ==
    /\ tx_result = "Busy"
    /\ tx_idx < MSG_LEN
    /\ tx_result' = "WriteError"
    /\ UNCHANGED <<call, command, tx_msg, tx_idx, tx_wire, tx_blocked>>
    /\ UNCHANGED rx_vars

----------------------------------------------------------------------------
(* The receive side: read_message.                                          *)
(* An answer of self.rx.read() is [kind, byte]: kind "Ok" with the byte     *)
(* read, or kind "WouldBlock" / "Other" (the two nb::Error cases), byte 0.  *)
(* What read_message returns is [kind, msg, err].                           *)

RxOk(b) == [kind |-> "Ok", byte |-> b]
RxErr(e) == [kind |-> e, byte |-> 0]
RxErrKinds == {"WouldBlock", "Other"}

Ok(m) == [kind |-> "Ok", msg |-> m, err |-> "-"]
ReadError(e) == [kind |-> "ReadError", msg |-> ZeroMessage, err |-> e]
MessageNotComplete == [kind |-> "MessageNotComplete", msg |-> ZeroMessage, err |-> "-"]
MessageOverrun == [kind |-> "MessageOverrun", msg |-> ZeroMessage, err |-> "-"]
NoResult == [kind |-> "None", msg |-> ZeroMessage, err |-> "-"]

\* the outcome of one arm: the fields it leaves behind and the value returned
Outcome(m, c, res) == [msg |-> m, counter |-> c, result |-> res]

\* self.rx_counter += 1 on a u8
inc_u8(c) == (c + 1) % 256

\* the start marker stored without clearing the buffer
on_start_keep(m, c) ==
    Outcome([m EXCEPT ![0] = MSG_START], 1, MessageNotComplete)

\* a start marker that finds the buffer full dropped like any other byte
on_start_unless_full(m, c) ==
    IF c < 10
    THEN Outcome([ZeroMessage EXCEPT ![0] = MSG_START], 1, MessageNotComplete)
    ELSE Outcome(m, c, MessageNotComplete)

\* arm Ok(MSG_START)
on_start(m, c) ==
    Outcome([ZeroMessage EXCEPT ![0] = MSG_START], 1, MessageNotComplete)

\* the cursor put back to 0 once the frame is returned
on_end_reset(m, c) ==
    IF c < 10
    THEN LET m1 == [m EXCEPT ![c] = MSG_END]
         IN  Outcome(m1, 0, Ok(m1))
    ELSE Outcome(m, c, MessageOverrun)

\* the bound test off by one: c <= 10
on_end_late(m, c) ==
    IF c <= 10
    THEN LET m1 == [m EXCEPT ![c] = MSG_END]
         IN  Outcome(m1, inc_u8(c), Ok(m1))
    ELSE Outcome(m, c, MessageOverrun)

\* arm Ok(MSG_END)
on_end(m, c) ==
    IF c < 10
    THEN LET m1 == [m EXCEPT ![c] = MSG_END]
         IN  Outcome(m1, inc_u8(c), Ok(m1))
    ELSE Outcome(m, c, MessageOverrun)

\* a byte that finds the buffer full reported as an overrun
on_byte_overrun(m, c, byte) ==
    IF c < 10
    THEN Outcome([m EXCEPT ![c] = byte], inc_u8(c), MessageNotComplete)
    ELSE Outcome(m, c, MessageOverrun)

\* the byte stored and the cursor advanced without the test c < 10
on_byte_unguarded(m, c, byte) ==
    Outcome([m EXCEPT ![c] = byte], inc_u8(c), MessageNotComplete)

\* arm Ok(byte)
on_byte(m, c, byte) ==
    IF c < 10
    THEN Outcome([m EXCEPT ![c] = byte], inc_u8(c), MessageNotComplete)
    ELSE Outcome(m, c, MessageNotComplete)

\* a failed read that drops the partial frame
on_err_reset(m, c, err) == Outcome(ZeroMessage, 0, ReadError(err))

\* arm Err(err)
on_err(m, c, err) == Outcome(m, c, ReadError(err))

\* the match with a failed read answered like a byte that completes nothing
read_message_match_swallow(m, c, r) ==
    CASE r.kind = "Ok" /\ r.byte = MSG_START -> on_start(m, c)
      [] r.kind = "Ok" /\ r.byte = MSG_END -> on_end(m, c)
      [] r.kind = "Ok" /\ r.byte \notin {MSG_START, MSG_END} -> on_byte(m, c, r.byte)
      [] OTHER -> Outcome(m, c, MessageNotComplete)

\* the match of read_message on the answer r of self.rx.read()
read_message_match(m, c, r) ==
    CASE r.kind = "Ok" /\ r.byte = MSG_START -> on_start(m, c)
      [] r.kind = "Ok" /\ r.byte = MSG_END -> on_end(m, c)
      [] r.kind = "Ok" /\ r.byte \notin {MSG_START, MSG_END} -> on_byte(m, c, r.byte)
      [] OTHER -> on_err(m, c, r.kind)

\* successive calls of read_message on a driver with buffer m and cursor c,
\* self.rx.read() answering the bytes of the sequence one per call: the
\* outcomes of the calls, in order
RECURSIVE feed(_, _, _)
feed(m, c, bytes) ==
    IF bytes = <<>>
    THEN <<>>
    ELSE LET out == read_message_match(m, c, RxOk(Head(bytes)))
         IN  <<out>> \o feed(out.msg, out.counter, Tail(bytes))

\* one call of read_message in which self.rx.read() answers r
read_message_with(r) ==
    LET out == read_message_match(rx_message, rx_counter, r)
    IN  /\ rx_in' = r
        /\ rx_message' = out.msg
        /\ rx_counter' = out.counter
        /\ rx_result' = out.result

(* The serial line towards the driver. rx_stream holds the bytes that      *)
(* arrive, in order; the transport hands them out one per successful read  *)
(* and answers WouldBlock once they are used up. With rx_stream empty the   *)
(* line is unconstrained: any byte of RxBytes may arrive before any read.   *)

\* the bytes an unconstrained line delivers
RxBytes == {1, MSG_START, MSG_END}

\* a Message as the sequence of its bytes on the line
Frame(m) == [i \in 1..MSG_LEN |-> m[i - 1]]

\* n non-marker bytes, all different: 1, 2, ..., n
Junk(n) == [i \in 1..n |-> i]

Frames == {Frame(from_command(c)) : c \in Commands}

\* what may precede a frame: an overrun, a short frame already returned, a
\* whole frame already returned, a lone end marker
Preludes ==
    {Junk(10) \o <<MSG_END>>,
     <<MSG_START, 1, MSG_END>>,
     Frame(from_command(Cmd("Pause", 0, 0))),
     <<MSG_END>>}

Scripts ==
    Frames
    \cup {<<MSG_START, 1>> \o f : f \in Frames}
    \cup {Junk(n) \o t : n \in 0..MaxJunk,
                         t \in {<<>>, <<MSG_END>>, <<MSG_START>>,
                                Frame(from_command(Cmd("Playback", 0, 0)))}}
    \cup {p \o Frame(from_command(Cmd("Playback", 0, 0))) : p \in Preludes}
    \cup {Frame(from_command(Cmd("Playback", 0, 0))) \o <<MSG_START, 1, MSG_END>>}
    \cup {<<MSG_START, 1, MSG_END, 1, MSG_END>>}

\* read_message, the transport delivering the next byte of rx_stream
read_message_scripted ==
    /\ rx_pos < Len(rx_stream)
    /\ read_message_with(RxOk(rx_stream[rx_pos + 1]))
    /\ rx_pos' = rx_pos + 1
    /\ UNCHANGED rx_stream
    /\ UNCHANGED tx_vars

\* read_message, an unconstrained line delivering some byte
read_message_free ==
    /\ rx_stream = <<>>
    /\ \E b \in RxBytes : read_message_with(RxOk(b))
    /\ UNCHANGED <<rx_stream, rx_pos>>
    /\ UNCHANGED tx_vars

\* read_message, self.rx.read() failing: no byte yet, or a hardware error
read_message_failed ==
    /\ \E e \in RxErrKinds : read_message_with(RxErr(e))
    /\ UNCHANGED <<rx_stream, rx_pos>>
    /\ UNCHANGED tx_vars

----------------------------------------------------------------------------
(* Specifications. *)

\* DFPlayer::new: the fields of a fresh driver, nothing called yet
new ==
    /\ rx_message = ZeroMessage
    /\ rx_counter = 0
    /\ rx_in = [kind |-> "None", byte |-> 0]
    /\ rx_result = NoResult
    /\ rx_pos = 0
    /\ call = Api("new", 0, 0)
    /\ command = Cmd("-", 0, 0)
    /\ tx_msg = ZeroMessage
    /\ tx_idx = 0
    /\ tx_wire = <<>>
    /\ tx_blocked = 0
    /\ tx_result = "None"

\* the receive side alone: a fresh driver on a line that delivers a script,
\* or on an unconstrained line
InitRx == new /\ rx_stream \in Scripts

NextRx ==
    \/ read_message_scripted
    \/ read_message_free
    \/ read_message_failed

SpecRx == InitRx /\ [][NextRx]_vars

\* the transmit side alone: a fresh driver, the wrappers and the transport's
\* answers to each write
InitTx == new /\ rx_stream = <<>>

NextTx ==
    \/ pause
    \/ play
    \/ next_track
    \/ previous_track
    \/ increse_volume
    \/ decrese_volume
    \/ set_volume
    \/ standby
    \/ reset_module
    \/ wakeup
    \/ set_equilizer
    \/ set_playback_mode
    \/ play_mp3
    \/ play_folder_track
    \/ advertise
    \/ send_command
    \/ tx_write_ok
    \/ tx_write_would_block
    \/ tx_write_err

SpecTx == InitTx /\ [][NextTx]_vars

\* the transport answers the byte it is offered: it accepts or rejects it
tx_write_answered == tx_write_ok \/ tx_write_err

\* the transmit side on a transport that does not answer WouldBlock for ever
SpecTxFair == InitTx /\ [][NextTx]_vars /\ WF_vars(tx_write_answered)

\* the Querry conversion and the transmission of what it returns
NextQuery ==
    \/ querry_into
    \/ tx_write_ok
    \/ tx_write_would_block
    \/ tx_write_err

SpecQuery == InitTx /\ [][NextQuery]_vars

----------------------------------------------------------------------------
(* Claims about the receive side, checked under SpecRx. *)

Markers == {MSG_START, MSG_END}

\* a Command whose parameters lie in their documented domains
\* (volume 0-30, mp3 and advertisement track 0-9999, folder 0-99)
InDomain(c) ==
    /\ c.variant = "SpecifyVolume" => c.a <= 30
    /\ c.variant \in {"SpecifyMp3Track", "SpecifyAdvertisement"} => c.a <= 9999
    /\ c.variant = "SpecifyFolder" => c.a <= 99

\* a frame none of whose bytes 1..8 has the value of a marker
NoInnerMarker(f) == \A i \in 1..8 : f[i] \notin Markers

\* C1: round trip. The 10 bytes of the frame encoded from any Command with
\* in-domain parameters, read one per call by a fresh driver, give
\* MessageNotComplete on each of the first 9 calls and Ok(the frame) on the
\* 10th.
C1_RoundTrip ==
    \A c \in Commands :
        (InDomain(c) /\ rx_stream = Frame(from_command(c)) /\ rx_in.kind = "Ok") =>
            /\ rx_pos \in 1..9 => rx_result = MessageNotComplete
            /\ rx_pos = 10 => rx_result = Ok(from_command(c))

\* the reset a start marker causes, as one step
StartMarkerStep ==
    (rx_in'.kind = "Ok" /\ rx_in'.byte = MSG_START) =>
        /\ rx_message' = [i \in MsgIdx |-> IF i = 0 THEN 126 ELSE 0]
        /\ rx_counter' = 1
        /\ rx_result' = MessageNotComplete

\* 0x7E, 0x01, then a whole encoded frame with no marker value inside it
ResyncReturnsSecondFrame ==
    \A c \in Commands :
        LET f == from_command(c)
        IN  (/\ NoInnerMarker(f)
             /\ rx_stream = <<126, 1>> \o Frame(f)
             /\ rx_in.kind = "Ok") =>
                /\ rx_pos \in 1..11 => rx_result = MessageNotComplete
                /\ rx_pos = 12 => rx_result = Ok(f)

C4_EmitResets ==
    rx_result.kind = "Ok" => (rx_counter = 0 /\ rx_message = ZeroMessage)

\* where the cursor and the buffer stand when a frame has just been returned
EmitKeepsFrame ==
    rx_result.kind = "Ok" =>
        /\ rx_counter \in 1..10
        /\ rx_message[rx_counter - 1] = MSG_END
        /\ rx_message = rx_result.msg

\* the byte after a returned frame goes on where that frame ended
AfterEmitStep ==
    (/\ rx_result.kind = "Ok"
     /\ rx_in'.kind = "Ok"
     /\ rx_in'.byte \notin Markers) =>
        IF rx_counter < 10
        THEN /\ rx_message' = [rx_message EXCEPT ![rx_counter] = rx_in'.byte]
             /\ rx_counter' = rx_counter + 1
        ELSE UNCHANGED <<rx_message, rx_counter>>

\* C4 amended: returning a frame resets nothing. The cursor stands one past
\* the end marker just stored (1..10), the buffer still holds the returned
\* frame, and a following non-marker byte is stored behind it (or dropped at
\* cursor 10); only a start marker resets the state.
C4_EmitKeepsState ==
    /\ []EmitKeepsFrame
    /\ [][AfterEmitStep]_vars

\* C4 witness: a byte was stored right behind a frame returned at cursor 2
C4_Witness ==
    /\ rx_counter = 4
    /\ rx_message[0] = 126
    /\ rx_message[2] = MSG_END
    /\ rx_message[3] = 1
    /\ rx_result = MessageNotComplete

\* an end marker that finds the cursor at 10, as one step
EndAtFullStep ==
    (rx_in'.kind = "Ok" /\ rx_in'.byte = MSG_END /\ rx_counter = 10) =>
        /\ rx_result' = MessageOverrun
        /\ UNCHANGED <<rx_message, rx_counter>>

\* 10 non-marker bytes to a fresh driver, then 0xEF
TenThenEnd ==
    (rx_stream = Junk(10) \o <<MSG_END>> /\ rx_in.kind = "Ok") =>
        /\ rx_pos \in 1..10 => rx_result = MessageNotComplete
        /\ rx_pos = 11 =>
            /\ rx_result = MessageOverrun
            /\ rx_counter = 10
            /\ \A i \in MsgIdx : rx_message[i] = i + 1

\* C5: an end marker read while the cursor is 10 reports MessageOverrun,
\* never a frame, and leaves buffer and cursor unchanged; 10 non-marker bytes
\* to a fresh driver followed by 0xEF give MessageOverrun on the 11th call.
C5_OverrunAtFull ==
    /\ []TenThenEnd
    /\ [][EndAtFullStep]_vars

\* C5 witness: the 11th call of that stream has returned MessageOverrun
C5_Witness ==
    /\ rx_stream = Junk(10) \o <<MSG_END>>
    /\ rx_pos = 11
    /\ rx_in = RxOk(MSG_END)
    /\ rx_result = MessageOverrun

\* a non-marker byte that finds the cursor at 10, as one step
DropAtFullStep ==
    (rx_in'.kind = "Ok" /\ rx_in'.byte \notin Markers /\ rx_counter = 10) =>
        /\ rx_result' = MessageNotComplete
        /\ UNCHANGED <<rx_message, rx_counter>>

\* 11 non-marker bytes to a fresh driver
ElevenPlain ==
    (rx_stream = Junk(11) /\ rx_in.kind = "Ok") =>
        /\ rx_result = MessageNotComplete
        /\ rx_pos = 11 =>
            /\ rx_counter = 10
            /\ \A i \in MsgIdx : rx_message[i] = i + 1

\* C6: a non-marker byte read while the cursor is 10 is dropped: cursor and
\* buffer stay as they are and the call reports MessageNotComplete, not
\* MessageOverrun; 11 non-marker bytes to a fresh driver leave the cursor at
\* 10 and the first 10 bytes in the buffer.
C6_PassiveOverflow ==
    /\ []ElevenPlain
    /\ [][DropAtFullStep]_vars

\* C6 witness: the 11th byte of that stream has been read and dropped
C6_Witness ==
    /\ rx_stream = Junk(11)
    /\ rx_pos = 11
    /\ rx_in = RxOk(11)
    /\ rx_counter = 10
    /\ rx_message[9] = 10
    /\ rx_result = MessageNotComplete

\* a failed read of the transport, as one step
ReadFailsStep ==
    (rx_in'.kind \in RxErrKinds) =>
        /\ rx_result' = [kind |-> "ReadError", msg |-> ZeroMessage, err |-> rx_in'.kind]
        /\ UNCHANGED <<rx_message, rx_counter>>

\* however many reads failed in between, the partial frame is what the bytes
\* read so far made it
PartialFrameSurvives ==
    \A n \in 1..MaxJunk :
        rx_stream = Junk(n) =>
            /\ rx_counter = Min(rx_pos, 10)
            /\ \A i \in MsgIdx :
                   rx_message[i] = IF i < rx_counter THEN i + 1 ELSE 0

\* C8: when self.rx.read() fails (WouldBlock or a hardware error)
\* read_message returns ReadError carrying that failure, never
\* MessageNotComplete, MessageOverrun or a frame, and leaves buffer and
\* cursor unchanged, so that a later successful read continues the same
\* partial frame.
C8_ReadErrorKeepsState ==
    /\ []PartialFrameSurvives
    /\ [][ReadFailsStep]_vars

\* C8 witness: a read failed while five bytes of a frame were in the buffer
C8_Witness ==
    /\ rx_in = RxErr("WouldBlock")
    /\ rx_result.kind = "ReadError"
    /\ rx_result.err = "WouldBlock"
    /\ rx_counter = 5
    /\ rx_message[0] = 126
    /\ rx_message[4] = 1

\* what one call of read_message returns and takes from the line, by the
\* answer of self.rx.read() and the cursor it found
OutcomeStep ==
    LET r == rx_in'
        c == rx_counter
        end == r.kind = "Ok" /\ r.byte = MSG_END
    IN  /\ rx_result'.kind \in
               {"Ok", "MessageOverrun", "ReadError", "MessageNotComplete"}
        /\ rx_result'.kind = "Ok" <=> (end /\ c < 10)
        /\ rx_result'.kind = "MessageOverrun" <=> (end /\ c = 10)
        /\ rx_result'.kind = "ReadError" <=> r.kind \in RxErrKinds
        /\ rx_result'.kind = "MessageNotComplete" <=>
               (r.kind = "Ok" /\ r.byte # MSG_END)
        /\ (end /\ c < 10) =>
               /\ rx_message' = [rx_message EXCEPT ![c] = MSG_END]
               /\ rx_counter' = c + 1
               /\ rx_result'.msg = rx_message'
        /\ rx_stream' = rx_stream
        /\ rx_pos' \in {rx_pos, rx_pos + 1}
        /\ rx_pos' = rx_pos + 1 => r = RxOk(rx_stream[rx_pos + 1])

\* C12: each call of read_message takes at most one byte from the transport
\* and returns one outcome, fixed by the byte and the cursor c: Ok(frame) iff
\* the byte is 0xEF and c < 10 (the byte is stored at index c, the cursor
\* becomes c + 1, the frame is the whole buffer); MessageOverrun iff the byte
\* is 0xEF and c = 10; ReadError iff the read failed; MessageNotComplete in
\* every other case.
C12_OutcomeFunction == [][OutcomeStep]_vars

\* C12 witness: an end marker read at cursor 9 returned the whole buffer
C12_Witness ==
    /\ rx_in = RxOk(MSG_END)
    /\ rx_result.kind = "Ok"
    /\ rx_result.msg = rx_message
    /\ rx_counter = 10
    /\ rx_message[0] = MSG_START
    /\ rx_message[9] = MSG_END

\* the 8 bytes between the markers of a frame, none of them a marker
RecoveryBodies ==
    {[i \in 1..8 |-> 0], [i \in 1..8 |-> 1], [i \in 1..8 |-> 255],
     [i \in 1..8 |-> 10 * i], <<255, 6, 13, 0, 0, 0, 254, 238>>}

\* from the buffer and cursor as they stand, a frame is received whole
RecoversFromHere ==
    \A body \in RecoveryBodies :
        LET bytes == <<MSG_START>> \o body \o <<MSG_END>>
            run == feed(rx_message, rx_counter, bytes)
        IN  /\ \A k \in 1..9 : run[k].result = MessageNotComplete
            /\ run[10].result = Ok([i \in MsgIdx |-> bytes[i + 1]])
            /\ run[10].msg = [i \in MsgIdx |-> bytes[i + 1]]

\* on a line whose last 10 bytes are the Playback frame, whatever came before
RecoversOnLine ==
    LET n == Len(rx_stream) - 10
        f == from_command(Cmd("Playback", 0, 0))
    IN  (/\ n >= 0
         /\ SubSeq(rx_stream, n + 1, n + 10) = Frame(f)
         /\ rx_in.kind = "Ok") =>
            /\ rx_pos \in (n + 1)..(n + 9) => rx_result = MessageNotComplete
            /\ rx_pos = n + 10 => rx_result = Ok(f)

\* C13: from every reachable state of the reassembler (after an overrun,
\* after a returned frame, with the buffer full, after failed reads) a start
\* marker, 8 non-marker bytes and an end marker give MessageNotComplete for
\* the first 9 of them and Ok(frame) holding exactly those 10 bytes on the
\* 10th; nothing received before the start marker is in the frame.
C13_Recovery == RecoversFromHere /\ RecoversOnLine

\* C13 witness: the Playback frame was received whole right after an overrun
C13_Witness ==
    /\ rx_stream = Junk(10) \o <<MSG_END>> \o Frame(from_command(Cmd("Playback", 0, 0)))
    /\ rx_pos = 21
    /\ rx_result = Ok(from_command(Cmd("Playback", 0, 0)))
    /\ rx_counter = 10

\* C14: every frame read_message returns is complete and delimited: index 0
\* holds the start marker 0x7E, index 9 the end marker 0xEF and exactly 10
\* bytes were received since the last start marker, whatever bytes are fed,
\* an end marker with no start marker seen or with fewer than 9 bytes
\* accumulated included.
C14_CompleteFrames ==
    rx_result.kind = "Ok" =>
        /\ rx_result.msg[0] = MSG_START
        /\ rx_result.msg[9] = MSG_END
        /\ rx_counter = 10

\* the cursor and the shape of the buffer
CursorInRange ==
    /\ rx_counter \in 0..10
    /\ DOMAIN rx_message = 0..9
    /\ \A i \in 0..9 : rx_message[i] \in 0..255

\* where a call writes and how it moves the cursor
WriteStep ==
    /\ (rx_message' # rx_message /\ rx_in' # RxOk(MSG_START)) =>
           /\ rx_counter \in 0..9
           /\ rx_message' = [rx_message EXCEPT ![rx_counter] = rx_in'.byte]
           /\ rx_counter' = rx_counter + 1
    /\ rx_in' = RxOk(MSG_START) =>
           /\ rx_counter' = 1
           /\ \A i \in 1..9 : rx_message'[i] = 0
    /\ rx_counter' \in {rx_counter, rx_counter + 1, 1}

\* C15: in every state reachable by any sequence of read_message calls (any
\* bytes, any failed reads) the cursor lies in 0..10 and every write to the
\* buffer uses an index in 0..9, so no call indexes outside the 10 bytes or
\* overflows the 8-bit counter.
C15_CursorBound ==
    /\ []CursorInRange
    /\ [][WriteStep]_vars

\* C15 witness: an end marker arrived with the cursor at 10 and the last slot
\* holding a payload byte
C15_Witness ==
    /\ rx_counter = 10
    /\ rx_message[9] = 1
    /\ rx_in = RxOk(MSG_END)
    /\ rx_result = MessageOverrun

----------------------------------------------------------------------------
(* Claims about the codec and the transmit side, checked under SpecTx. *)

\* the 16-bit value in bytes lo, lo+1 of m, big-endian
BigEndian(m, lo) == 256 * m[lo] + m[lo + 1]

\* the layout of the frame send_message was given
tx_layout ==
    LET s == tx_msg[1] + tx_msg[2] + tx_msg[3] + tx_msg[4] + tx_msg[5] + tx_msg[6]
    IN  /\ DOMAIN tx_msg = 0..9
        /\ \A i \in 0..9 : tx_msg[i] \in U8
        /\ tx_msg[0] = 126
        /\ tx_msg[1] = 255
        /\ tx_msg[2] = 6
        /\ tx_msg[4] = 0
        /\ tx_msg[9] = 239
        /\ s <= 65535
        /\ BigEndian(tx_msg, 7) = (0 - s) % 65536

\* C2: for every Command value the encoded frame has byte 0 = 0x7E,
\* byte 1 = 0xFF, byte 2 = 0x06, byte 4 = 0x00, byte 9 = 0xEF and bytes 7-8
\* hold, big-endian, (0 - sum of bytes 1..6) mod 2^16; the 16-bit sum does not
\* overflow, whatever the six bytes are.
C2_FrameLayout ==
    /\ tx_result # "None" => tx_layout
    /\ checksum_sum([i \in MsgIdx |-> 255]) <= 65535

\* C2 witness: the frame of SpecifyFolder(255, 255), whose sum is the largest
C2_Witness ==
    /\ tx_result = "Ok"
    /\ command = Cmd("SpecifyFolder", 255, 255)
    /\ tx_msg[5] = 255
    /\ tx_msg[6] = 255

\* the bytes on the line are the first tx_idx bytes of the frame, in order
WireIsPrefix ==
    /\ tx_idx \in 0..10
    /\ Len(tx_wire) = tx_idx
    /\ \A i \in 1..tx_idx : tx_wire[i] = tx_msg[i - 1]
    /\ tx_result = "Ok" => tx_idx = 10
    /\ tx_idx = 10 => tx_result = "Ok"
    /\ tx_result = "WriteError" => tx_idx < 10

\* what one step may do to the line
WireStep ==
    /\ (tx_result = "Busy" /\ tx_result' = "WriteError") =>
           UNCHANGED <<tx_wire, tx_idx, tx_msg>>
    /\ tx_wire' # tx_wire =>
           \/ /\ tx_result = "Busy"
              /\ tx_wire' = Append(tx_wire, tx_msg[tx_idx])
              /\ tx_idx' = tx_idx + 1
              /\ tx_msg' = tx_msg
           \/ /\ tx_result # "Busy"
              /\ tx_result' = "Busy"
              /\ tx_wire' = <<>>
    /\ tx_result \in {"Ok", "WriteError"} => tx_result' = "Busy"

\* C7: send_message writes the bytes of the frame in index order 0..9, each
\* accepted byte once; when the transport rejects the byte at index k it
\* returns WriteError at once with exactly bytes 0..k-1 sent and writes
\* nothing more; it returns Ok only after all 10 bytes were accepted.
C7_TransmitOrder ==
    /\ []WireIsPrefix
    /\ [][WireStep]_vars

\* C7 witness: the byte at index 4 was rejected after four bytes went out
C7_Witness ==
    /\ tx_result = "WriteError"
    /\ tx_idx = 4
    /\ Len(tx_wire) = 4
    /\ tx_wire[4] = tx_msg[3]

\* what each clamping wrapper puts into bytes 5 and 6
ClampedBytes ==
    /\ call.fn = "set_volume" =>
           (tx_msg[5] = 0 /\ tx_msg[6] = Min(call.a, 30))
    /\ call.fn \in {"play_mp3", "advertise"} =>
           BigEndian(tx_msg, 5) = Min(call.a, 9999)
    /\ call.fn = "play_folder_track" =>
           (tx_msg[5] = Min(call.a, 99) /\ tx_msg[6] = call.b)

\* a call made on an idle driver always gets into the transmit loop
CallEntersLoop ==
    tx_result # "Busy" => (tx_result' = "Busy" /\ tx_idx' = 0)

\* C9: set_volume(v) encodes byte 6 = min(v, 30) with byte 5 = 0; play_mp3(t)
\* and advertise(t) encode bytes 5-6 = big-endian min(t, 9999);
\* play_folder_track(f, t) encodes byte 5 = min(f, 99) and byte 6 = t; no
\* argument makes the call fail before transmission.
C9_SaturatingClamp ==
    /\ []ClampedBytes
    /\ [][CallEntersLoop]_vars

\* C9 witness: set_volume(255) sent with volume byte 30
C9_Witness ==
    /\ call = Api("set_volume", 255, 0)
    /\ tx_result = "Ok"
    /\ tx_msg[6] = 30

\* the identifier table as documented (Next=0x01 ... Stop=0x16)
DocumentedId ==
    [v \in Variants |->
        CASE v = "Next" -> 1
          [] v = "Previous" -> 2
          [] v = "SpecifyTrack" -> 3
          [] v = "IncreseVolume" -> 4
          [] v = "DecreseVolume" -> 5
          [] v = "SpecifyVolume" -> 6
          [] v = "SpecifyEqualizer" -> 7
          [] v = "SpecifyPlaybackMode" -> 8
          [] v = "Standby" -> 10
          [] v = "NormalWorking" -> 11
          [] v = "ResetModule" -> 12
          [] v = "Playback" -> 13
          [] v = "Pause" -> 14
          [] v = "SpecifyFolder" -> 15
          [] v = "SpecifyMp3Track" -> 18
          [] v = "SpecifyAdvertisement" -> 19
          [] v = "StopAdvertisement" -> 21
          [] v = "Stop" -> 22]

\* the match covers 18 variants and gives no two of them the same identifier,
\* whatever their parameters
IdInjective ==
    /\ Cardinality(Variants) = 18
    /\ {c.variant : c \in Commands} = Variants
    /\ \A c1, c2 \in Commands :
           command_id(c1) = command_id(c2) => c1.variant = c2.variant

\* C10: each of the 18 Command variants maps to one identifier in byte 3,
\* no two variants share an identifier, and the identifier is the documented
\* one whatever the variant's parameters are.
C10_IdentifierTable ==
    /\ IdInjective
    /\ tx_result # "None" =>
           /\ command.variant \in Variants
           /\ tx_msg[3] = DocumentedId[command.variant]

\* C10 witness: Stop, the last row of the table, has been encoded
C10_Witness ==
    /\ command = Cmd("Stop", 0, 0)
    /\ tx_result = "Ok"
    /\ tx_msg[3] = 22

----------------------------------------------------------------------------
(* Claims about the Querry conversion, checked under SpecQuery. *)

\* what stands after a Querry was converted
QuerryOutcome ==
    call.fn = "querry_into" =>
        IF command.variant = "Volume"
        THEN /\ tx_result # "Panic"
             /\ tx_layout
             /\ tx_msg[3] = 1
             /\ tx_msg[5] = 0
             /\ tx_msg[6] = 0
        ELSE tx_result = "Panic"

\* the failing conversion hands out no frame and nothing runs after it
PanicStep ==
    /\ tx_result' = "Panic" => UNCHANGED <<tx_msg, tx_idx, tx_wire>>
    /\ tx_result = "Panic" => UNCHANGED vars

\* C11: encoding a Querry other than Volume never yields a frame: it ends in
\* unimplemented!() before any frame is returned; encoding Querry::Volume
\* yields a well-formed frame with identifier 0x01 and parameter bytes 0, 0.
C11_QuerryEncoding ==
    /\ []QuerryOutcome
    /\ [][PanicStep]_vars

\* C11 witness: Querry::Volume was encoded and sent, then Querry::Status
\* ended in unimplemented!()
C11_Witness ==
    /\ call.fn = "querry_into"
    /\ command = Cmd("Status", 0, 0)
    /\ tx_result = "Panic"
    /\ tx_msg[3] = 1
    /\ Len(tx_wire) = 10

----------------------------------------------------------------------------
(* Claims about blocking in send_message, checked under SpecTxFair. *)

\* a WouldBlock answer keeps send_message at the same byte, and send_message
\* is left only by the last byte accepted or by a byte rejected
RetryStep ==
    /\ tx_blocked' = tx_blocked + 1 =>
           /\ tx_result = "Busy"
           /\ tx_result' = "Busy"
           /\ UNCHANGED <<tx_idx, tx_wire, tx_msg>>
    /\ (tx_result = "Busy" /\ tx_result' # "Busy") =>
           \/ /\ tx_result' = "Ok"
              /\ tx_idx' = 10
              /\ tx_wire' = Append(tx_wire, tx_msg[9])
           \/ /\ tx_result' = "WriteError"
              /\ UNCHANGED <<tx_idx, tx_wire, tx_blocked>>

\* however often the byte was refused so far, it may be refused again
MayBlockAgain ==
    (tx_result = "Busy" /\ tx_blocked < MaxBlock) => ENABLED tx_write_would_block

\* send_message returns
Returns == (tx_result = "Busy") ~> (tx_result \in {"Ok", "WriteError"})

\* C16: while the transport answers WouldBlock for a byte send_message offers
\* the same byte again, without advancing or skipping, and does not give up;
\* if the transport in the end accepts or rejects every byte offered,
\* send_message returns, with Ok (all 10 bytes sent) or WriteError.
C16_BlockingTransmit ==
    /\ [][RetryStep]_vars
    /\ []MayBlockAgain
    /\ Returns

\* C16 witness: the byte at index 3 has been refused MaxBlock times and
\* send_message is still at it
C16_Witness ==
    /\ tx_result = "Busy"
    /\ tx_idx = 3
    /\ Len(tx_wire) = 3
    /\ tx_blocked = MaxBlock

----------------------------------------------------------------------------
(* Claims about the tail of the buffer, checked under SpecRx. *)

\* the buffer is 0x00 from the cursor on
ZeroTail == \A i \in MsgIdx : i >= rx_counter => rx_message[i] = 0

\* a frame returned is 0x00 after its end marker
PaddedReturn ==
    rx_result.kind = "Ok" =>
        \A i \in MsgIdx : i >= rx_counter => rx_result.msg[i] = 0

\* a frame returned holds no end marker but its own, that is none of the
\* frames returned before it
NoEarlierFrame ==
    rx_result.kind = "Ok" =>
        \A i \in MsgIdx : i < rx_counter - 1 => rx_result.msg[i] # MSG_END

\* the positions of the script at which a start marker was received
StartsReceived == {k \in 1..rx_pos : rx_stream[k] = MSG_START}

\* the bytes received from the last start marker on, or since creation
SinceStart ==
    IF StartsReceived = {}
    THEN SubSeq(rx_stream, 1, rx_pos)
    ELSE SubSeq(rx_stream,
                CHOOSE k \in StartsReceived : \A j \in StartsReceived : j <= k,
                rx_pos)

\* on a scripted line the buffer is the first 10 bytes received from the last
\* start marker on, followed by 0x00, and the cursor counts them
BufferSinceStart ==
    rx_stream # <<>> =>
        /\ rx_counter = Min(MSG_LEN, Len(SinceStart))
        /\ \A i \in MsgIdx :
               rx_message[i] = IF i < Len(SinceStart) THEN SinceStart[i + 1] ELSE 0

====
